---- MODULE Spec2Model ----
(***************************************************************************)
(* Recommendation matching engine of GruhaAlankar:                         *)
(*   RoomAnalysisService.match_furniture   (room_analysis_service.py)      *)
(*   AIService.map_recommendations_to_assets   (ai_service.py)             *)
(*                                                                         *)
(* Python strings are sequences of one-character strings, so that          *)
(* str.lower() and the substring test `a in b` are computed, not assumed.  *)
(* Lengths are in tenths of a metre (1.5 m is 15), confidences in tenths   *)
(* (0.8 is 8).  A dict key that is missing is Absent, a JSON null is       *)
(* NoneVal.                                                                *)
(***************************************************************************)
EXTENDS Integers, Sequences, FiniteSets, TLC

VARIABLES room_analysis, furniture_catalog, recommendations,
          stage, matched_furniture, mapped_assets, error,
          calls, lists, handler, store, reader

vars == <<room_analysis, furniture_catalog, recommendations,
          stage, matched_furniture, mapped_assets, error,
          calls, lists, handler, store, reader>>

----------------------------------------------------------------------------
(* Bounds of the model *)

MaxCatalog == 2
MaxExtra == 1
MaxSuggestions == 2

----------------------------------------------------------------------------
(* Python values *)

Absent == <<"<absent>">>
NoneVal == <<"<None>">>
NoNumber == -1

UpperChars == <<"A","B","C","D","E","F","G","H","I","J","K","L","M",
                "N","O","P","Q","R","S","T","U","V","W","X","Y","Z">>
LowerChars == <<"a","b","c","d","e","f","g","h","i","j","k","l","m",
                "n","o","p","q","r","s","t","u","v","w","x","y","z">>

\* The lower-case letter of every upper-case letter
LowerTable ==
    [c \in {UpperChars[i] : i \in 1..Len(UpperChars)} |->
        LowerChars[CHOOSE i \in 1..Len(UpperChars) : UpperChars[i] = c]]

LowerChar(c) == IF c \in DOMAIN LowerTable THEN LowerTable[c] ELSE c

\* str.lower()
Lower(s) == [i \in 1..Len(s) |-> LowerChar(s[i])]

\* `a in b` for two strings: a is a contiguous part of b
IsSubstring(a, b) ==
    \E k \in 0..(Len(b) - Len(a)) : \A i \in 1..Len(a) : b[k + i] = a[i]

\* `x in xs` for a list xs
InList(x, xs) == \E i \in 1..Len(xs) : xs[i] = x

\* d.get(key, default) for a value that is Absent when the key is missing
Get(value, default) == IF value = Absent THEN default ELSE value

\* d.get(key, default) for a number
GetNumber(value, default) == IF value = NoNumber THEN default ELSE value

EmptyStr == <<>>

living == <<"l","i","v","i","n","g">>
lounge == <<"l","o","u","n","g","e">>
bedroom == <<"b","e","d","r","o","o","m">>
bed == <<"b","e","d">>
dining == <<"d","i","n","i","n","g">>
kitchen == <<"k","i","t","c","h","e","n">>
office == <<"o","f","f","i","c","e">>
study == <<"s","t","u","d","y">>
desk == <<"d","e","s","k">>
LivingRoom == <<"L","i","v","i","n","g"," ","R","o","o","m">>
modern == <<"m","o","d","e","r","n">>
Modern == <<"M","o","d","e","r","n">>
PostModern == <<"P","o","s","t","-","M","o","d","e","r","n">>
rustic == <<"r","u","s","t","i","c">>
small == <<"s","m","a","l","l">>
medium == <<"m","e","d","i","u","m">>
large == <<"l","a","r","g","e">>
Large == <<"L","a","r","g","e">>
sofa == <<"s","o","f","a">>
Sofa == <<"S","o","f","a">>
hammock == <<"h","a","m","m","o","c","k">>
ModernSofa == <<"M","o","d","e","r","n"," ","S","o","f","a">>
Armchair == <<"A","r","m","c","h","a","i","r">>
white == <<"#","F","F","F","F","F","F">>
gray == <<"#","8","0","8","0","8","0">>
ReasonText == <<"f","i","l","l","s"," ","t","h","e"," ","c","o","r","n","e","r">>

----------------------------------------------------------------------------
(* RoomAnalysisService.match_furniture *)

TopN == 8
MinScore == 50
CategoryBonus == 50
StyleBonus == 30
SizeBonus == 20
MediumBonus == 10
SmallLimit == 15
LargeLimit == 20
SmallDefault == 20
LargeDefault == 10

CategoryReason == "Perfect for your {room_type} room"
StyleReason == "Matches your {style_preference} style"
CompactReason == "Compact size fits small spaces"
StatementReason == "Statement piece for larger rooms"
VersatileReason == "Versatile size for medium spaces"

category_map_keys == {living, bedroom, dining, office}

category_map(room_type) ==
    CASE room_type = living -> <<living, lounge>>
      [] room_type = bedroom -> <<bedroom, bed>>
      [] room_type = dining -> <<dining, kitchen>>
      [] room_type = office -> <<office, study, desk>>

\* category_map.get(room_type, ['living'])
valid_categories(room_type) ==
    IF room_type \in category_map_keys THEN category_map(room_type) ELSE <<living>>

CategoryMatches_Member(item, cats) ==
    \E i \in 1..Len(cats) : cats[i] = Lower(Get(item.category, EmptyStr))

\* any(cat in item.get('category', '').lower() for cat in valid_categories)
CategoryMatches(item, cats) ==
    \E i \in 1..Len(cats) : IsSubstring(cats[i], Lower(Get(item.category, EmptyStr)))

StyleMatches_Equal(item, style_preference) ==
    style_preference = Lower(Get(item.style, EmptyStr))

\* style_preference in item.get('style', '').lower()
StyleMatches(item, style_preference) ==
    IsSubstring(style_preference, Lower(Get(item.style, EmptyStr)))

\* item.get('dimensions', {}) followed by dims.get('width', d), dims.get('depth', d)
DimWidth(item, default) ==
    IF item.dimensions.kind = "absent" THEN default
    ELSE GetNumber(item.dimensions.width, default)

DimDepth(item, default) ==
    IF item.dimensions.kind = "absent" THEN default
    ELSE GetNumber(item.dimensions.depth, default)

SizeOutcome_AlwaysOne(item, space_size) ==
    IF space_size = small
          /\ DimWidth(item, SmallDefault) < SmallLimit /\ DimDepth(item, SmallDefault) < SmallLimit
    THEN [bonus |-> SizeBonus, reasons |-> <<[text |-> CompactReason, arg |-> EmptyStr]>>]
    ELSE IF space_size = large
          /\ (DimWidth(item, LargeDefault) > LargeLimit \/ DimDepth(item, LargeDefault) > LargeLimit)
    THEN [bonus |-> SizeBonus, reasons |-> <<[text |-> StatementReason, arg |-> EmptyStr]>>]
    ELSE [bonus |-> MediumBonus, reasons |-> <<[text |-> VersatileReason, arg |-> EmptyStr]>>]

\* The size branch: the bonus and the reason it appends (none when the item
\* fails the threshold test of a small or a large room)
SizeOutcome(item, space_size) ==
    IF space_size = small
    THEN IF DimWidth(item, SmallDefault) < SmallLimit /\ DimDepth(item, SmallDefault) < SmallLimit
         THEN [bonus |-> SizeBonus, reasons |-> <<[text |-> CompactReason, arg |-> EmptyStr]>>]
         ELSE [bonus |-> 0, reasons |-> <<>>]
    ELSE IF space_size = large
    THEN IF DimWidth(item, LargeDefault) > LargeLimit \/ DimDepth(item, LargeDefault) > LargeLimit
         THEN [bonus |-> SizeBonus, reasons |-> <<[text |-> StatementReason, arg |-> EmptyStr]>>]
         ELSE [bonus |-> 0, reasons |-> <<>>]
    ELSE [bonus |-> MediumBonus, reasons |-> <<[text |-> VersatileReason, arg |-> EmptyStr]>>]

CategoryOutcome(item, room_type) ==
    IF CategoryMatches(item, valid_categories(room_type))
    THEN [bonus |-> CategoryBonus, reasons |-> <<[text |-> CategoryReason, arg |-> room_type]>>]
    ELSE [bonus |-> 0, reasons |-> <<>>]

StyleOutcome(item, style_preference) ==
    IF StyleMatches(item, style_preference)
    THEN [bonus |-> StyleBonus, reasons |-> <<[text |-> StyleReason, arg |-> style_preference]>>]
    ELSE [bonus |-> 0, reasons |-> <<>>]

\* The body of the loop raises (AttributeError) on a null where a string or a
\* dict is expected: None.lower(), None.get(...)
ItemRaises(item, space_size) ==
    \/ item.category = NoneVal
    \/ item.style = NoneVal
    \/ space_size \in {small, large} /\ item.dimensions.kind = "none"

\* The size reason appended before the style reason
ScoreItem_SizeFirst(item, room_type, style_preference, space_size) ==
    LET c == CategoryOutcome(item, room_type)
        s == StyleOutcome(item, style_preference)
        z == SizeOutcome(item, space_size)
    IN  [score |-> c.bonus + s.bonus + z.bonus,
         reasons |-> c.reasons \o z.reasons \o s.reasons]

\* score and reasons of one item of the loop
ScoreItem(item, room_type, style_preference, space_size) ==
    LET c == CategoryOutcome(item, room_type)
        s == StyleOutcome(item, style_preference)
        z == SizeOutcome(item, space_size)
    IN  [score |-> c.bonus + s.bonus + z.bonus,
         reasons |-> c.reasons \o s.reasons \o z.reasons]

\* {**item, 'recommendation_score': score, 'reasons': reasons}
Recommendation(item, scored) ==
    [recommendation_score |-> scored.score, reasons |-> scored.reasons] @@ item

\* The score and the reasons written into the catalog's own record
ItemAfterScoring_InPlace(item, scored) ==
    IF scored.score >= MinScore
    THEN [recommendation_score |-> scored.score, reasons |-> scored.reasons] @@ item
    ELSE item

\* The catalog's record after the loop body ran on it: {**item, ...} builds a
\* new dict for the output and nothing is assigned to the item
ItemAfterScoring(item, scored) == item

\* if score >= 50: recommendations.append(...)
Qualifies_Forty(scored) == scored.score >= MinScore - 10

Qualifies(scored) == scored.score >= MinScore

RECURSIVE CollectRecommendations(_, _, _, _)
CollectRecommendations(catalog, room_type, style_preference, space_size) ==
    IF catalog = <<>> THEN <<>>
    ELSE LET n == Len(catalog)
             rest == CollectRecommendations(SubSeq(catalog, 1, n - 1),
                                            room_type, style_preference, space_size)
             scored == ScoreItem(catalog[n], room_type, style_preference, space_size)
         IN  IF Qualifies(scored)
             THEN Append(rest, Recommendation(catalog[n], scored))
             ELSE rest

InsertPoint_Unstable(sorted, x) ==
    Cardinality({i \in 1..Len(sorted) :
                    sorted[i].recommendation_score > x.recommendation_score})

\* Where list.sort(key=score, reverse=True) puts x among the already sorted
\* elements that preceded it: after every element whose score is >= its own
InsertPoint(sorted, x) ==
    Cardinality({i \in 1..Len(sorted) :
                    sorted[i].recommendation_score >= x.recommendation_score})

RECURSIVE SortByScore(_)
\* recommendations.sort(key=lambda x: x['recommendation_score'], reverse=True):
\* a stable sort, equal scores keep their order
SortByScore(recs) ==
    IF recs = <<>> THEN <<>>
    ELSE LET n == Len(recs)
             sorted == SortByScore(SubSeq(recs, 1, n - 1))
             k == InsertPoint(sorted, recs[n])
         IN  SubSeq(sorted, 1, k) \o <<recs[n]>> \o SubSeq(sorted, k + 1, n - 1)

\* The last eight of the sorted list instead of the first eight
Truncate_KeepLast(recs) ==
    SubSeq(recs, IF Len(recs) < TopN THEN 1 ELSE Len(recs) - TopN + 1, Len(recs))

Truncate_KeepAll(recs) == recs

\* recommendations[:8]
Truncate(recs) == SubSeq(recs, 1, IF Len(recs) < TopN THEN Len(recs) ELSE TopN)

\* room_analysis.get(key, default).lower() raises on a null
ProfileRaises(analysis) ==
    \/ analysis.room_type = NoneVal
    \/ analysis.style = NoneVal
    \/ analysis.space_size = NoneVal

\* A missing style read as 'rustic', a missing space_size as 'large'
match_furniture_OtherDefaults(analysis, catalog) ==
    IF ProfileRaises(analysis) THEN <<>>
    ELSE LET room_type == Lower(Get(analysis.room_type, living))
             style_preference == Lower(Get(analysis.style, rustic))
             space_size == Lower(Get(analysis.space_size, large))
         IN  IF \E i \in 1..Len(catalog) : ItemRaises(catalog[i], space_size)
             THEN <<>>
             ELSE Truncate(SortByScore(CollectRecommendations(catalog, room_type,
                                                              style_preference, space_size)))

\* A missing room_type read as 'bedroom'
match_furniture_DefaultBedroom(analysis, catalog) ==
    IF ProfileRaises(analysis) THEN <<>>
    ELSE LET room_type == Lower(Get(analysis.room_type, bedroom))
             style_preference == Lower(Get(analysis.style, modern))
             space_size == Lower(Get(analysis.space_size, medium))
         IN  IF \E i \in 1..Len(catalog) : ItemRaises(catalog[i], space_size)
             THEN <<>>
             ELSE Truncate(SortByScore(CollectRecommendations(catalog, room_type,
                                                              style_preference, space_size)))

match_furniture(analysis, catalog) ==
    IF ProfileRaises(analysis) THEN <<>>
    ELSE LET room_type == Lower(Get(analysis.room_type, living))
             style_preference == Lower(Get(analysis.style, modern))
             space_size == Lower(Get(analysis.space_size, medium))
         IN  IF \E i \in 1..Len(catalog) : ItemRaises(catalog[i], space_size)
             THEN <<>>
             ELSE Truncate(SortByScore(
                      CollectRecommendations(catalog, room_type, style_preference, space_size)))

\* The catalog list after a call of match_furniture: the same list object,
\* each record as the loop body left it
CatalogAfterScoring(analysis, catalog) ==
    IF ProfileRaises(analysis) THEN catalog
    ELSE LET room_type == Lower(Get(analysis.room_type, living))
             style_preference == Lower(Get(analysis.style, modern))
             space_size == Lower(Get(analysis.space_size, medium))
         IN  IF \E i \in 1..Len(catalog) : ItemRaises(catalog[i], space_size)
             THEN catalog
             ELSE [i \in 1..Len(catalog) |->
                      ItemAfterScoring(catalog[i],
                                       ScoreItem(catalog[i], room_type,
                                                 style_preference, space_size))]

----------------------------------------------------------------------------
(* AIService.map_recommendations_to_assets *)

DefaultColor == gray
ConfidenceStyleMatch == 8
ConfidenceNoStyleMatch == 6

\* furniture_type in item_name or furniture_type in item.get('tags', [])
type_match(furniture_type, item) ==
    \/ IsSubstring(furniture_type, Lower(Get(item.name, EmptyStr)))
    \/ item.tags.has /\ InList(furniture_type, item.tags.list)

category_match_Substring(category, item) ==
    IsSubstring(category, Lower(Get(item.category, EmptyStr)))

\* category == item_category
category_match(category, item) ==
    category = Lower(Get(item.category, EmptyStr))

style_match_NoEmpty(style, item) ==
    style = Lower(Get(item.style, EmptyStr))

\* style == item_style or not style
style_match(style, item) ==
    style = Lower(Get(item.style, EmptyStr)) \/ style = EmptyStr

\* if type_match and category_match
Accepts(rec, item) ==
    /\ type_match(Lower(Get(rec.furniture_type, EmptyStr)), item)
    /\ category_match(Lower(Get(rec.category, EmptyStr)), item)

\* item.get('available_colors', ['#808080'])
available_colors(item) ==
    IF item.available_colors.has THEN item.available_colors.list ELSE <<DefaultColor>>

\* What building the entry of an accepted item raises: available_colors[0] on
\* an empty list (IndexError), item['id'] on an item without id (KeyError)
EntryError(item) ==
    IF available_colors(item) = <<>> THEN "IndexError"
    ELSE IF item.id = Absent THEN "KeyError"
    ELSE "none"

\* The reason left empty
MatchedAsset_NoReason(rec, item) ==
    [asset_id |-> item.id,
     color |-> available_colors(item)[1],
     reason |-> EmptyStr,
     confidence |-> IF style_match(Lower(Get(rec.preferred_style, EmptyStr)), item)
                    THEN ConfidenceStyleMatch ELSE ConfidenceNoStyleMatch]

\* The dict appended to matched_assets
MatchedAsset(rec, item) ==
    [asset_id |-> item.id,
     color |-> available_colors(item)[1],
     reason |-> Get(rec.reason, EmptyStr),
     confidence |-> IF style_match(Lower(Get(rec.preferred_style, EmptyStr)), item)
                    THEN ConfidenceStyleMatch ELSE ConfidenceNoStyleMatch]

\* item.get('name', '').lower(), item.get('category', '').lower() and
\* item.get('style', '').lower() raise (AttributeError) on a null
ItemStringsRaise(item) ==
    item.name = NoneVal \/ item.category = NoneVal \/ item.style = NoneVal

ScanRaised == -1

\* The last accepting item instead of the first
RECURSIVE ScanFrom_Last(_, _, _)
ScanFrom_Last(rec, catalog, j) ==
    IF j > Len(catalog) THEN 0
    ELSE IF ItemStringsRaise(catalog[j]) THEN ScanRaised
    ELSE LET later == ScanFrom_Last(rec, catalog, j + 1)
         IN  IF later # 0 THEN later
             ELSE IF Accepts(rec, catalog[j]) THEN j ELSE 0

\* The inner loop from item j on: the index of the item it breaks at, 0 when it
\* runs off the end of the catalog, ScanRaised when an item on the way raises
RECURSIVE ScanFrom(_, _, _)
ScanFrom(rec, catalog, j) ==
    IF j > Len(catalog) THEN 0
    ELSE IF ItemStringsRaise(catalog[j]) THEN ScanRaised
    ELSE IF Accepts(rec, catalog[j]) THEN j
    ELSE ScanFrom(rec, catalog, j + 1)

FirstMatch(rec, catalog) == ScanFrom(rec, catalog, 1)

\* The entries of every accepting item of the catalog from item j on
RECURSIVE AllMatches(_, _, _)
AllMatches(rec, catalog, j) ==
    IF j > Len(catalog) THEN <<>>
    ELSE IF Accepts(rec, catalog[j]) /\ EntryError(catalog[j]) = "none"
    THEN <<MatchedAsset(rec, catalog[j])>> \o AllMatches(rec, catalog, j + 1)
    ELSE AllMatches(rec, catalog, j + 1)

\* The outer loop without the break of the inner one
RECURSIVE MapFrom_NoBreak(_, _, _, _)
MapFrom_NoBreak(recs, catalog, i, matched_assets) ==
    IF i > Len(recs) THEN [error |-> "none", matched_assets |-> matched_assets]
    ELSE MapFrom_NoBreak(recs, catalog, i + 1,
                         matched_assets \o AllMatches(recs[i], catalog, 1))

\* A matched item is taken out of the catalog for the suggestions that follow
RECURSIVE MapFrom_Consuming(_, _, _, _)
MapFrom_Consuming(recs, catalog, i, matched_assets) ==
    IF i > Len(recs) THEN [error |-> "none", matched_assets |-> matched_assets]
    ELSE LET j == FirstMatch(recs[i], catalog)
         IN  IF j = 0 THEN MapFrom_Consuming(recs, catalog, i + 1, matched_assets)
             ELSE IF j = ScanRaised
             THEN [error |-> "AttributeError", matched_assets |-> <<>>]
             ELSE IF EntryError(catalog[j]) # "none"
             THEN [error |-> EntryError(catalog[j]), matched_assets |-> <<>>]
             ELSE MapFrom_Consuming(recs,
                                    SubSeq(catalog, 1, j - 1)
                                       \o SubSeq(catalog, j + 1, Len(catalog)),
                                    i + 1,
                                    Append(matched_assets, MatchedAsset(recs[i], catalog[j])))

\* A suggestion without an accepting item ends the call with an exception
RECURSIVE MapFrom_RaiseOnNoMatch(_, _, _, _)
MapFrom_RaiseOnNoMatch(recs, catalog, i, matched_assets) ==
    IF i > Len(recs) THEN [error |-> "none", matched_assets |-> matched_assets]
    ELSE LET j == FirstMatch(recs[i], catalog)
         IN  IF j = 0 THEN [error |-> "KeyError", matched_assets |-> <<>>]
             ELSE IF j = ScanRaised
             THEN [error |-> "AttributeError", matched_assets |-> <<>>]
             ELSE IF EntryError(catalog[j]) # "none"
             THEN [error |-> EntryError(catalog[j]), matched_assets |-> <<>>]
             ELSE MapFrom_RaiseOnNoMatch(recs, catalog, i + 1,
                          Append(matched_assets, MatchedAsset(recs[i], catalog[j])))

\* The outer loop over the recommendations i..Len(recs), with the entries
\* appended so far; an exception ends the call, which then returns nothing
RECURSIVE MapFrom(_, _, _, _)
MapFrom(recs, catalog, i, matched_assets) ==
    IF i > Len(recs) THEN [error |-> "none", matched_assets |-> matched_assets]
    ELSE LET j == FirstMatch(recs[i], catalog)
         IN  IF j = 0 THEN MapFrom(recs, catalog, i + 1, matched_assets)
             ELSE IF j = ScanRaised
             THEN [error |-> "AttributeError", matched_assets |-> <<>>]
             ELSE IF EntryError(catalog[j]) # "none"
             THEN [error |-> EntryError(catalog[j]), matched_assets |-> <<>>]
             ELSE MapFrom(recs, catalog, i + 1,
                          Append(matched_assets, MatchedAsset(recs[i], catalog[j])))

map_recommendations_to_assets(recs, catalog) == MapFrom(recs, catalog, 1, <<>>)

----------------------------------------------------------------------------
(* Inputs: catalog items, room profiles and AI suggestions *)

Dims(w, d) == [kind |-> "dict", width |-> w, depth |-> d]
NoDims == [kind |-> "absent", width |-> NoNumber, depth |-> NoNumber]
NullDims == [kind |-> "none", width |-> NoNumber, depth |-> NoNumber]

List(xs) == [has |-> TRUE, list |-> xs]
NoList == [has |-> FALSE, list |-> <<>>]

HasId == <<"<id>">>
IdDigits == <<"1","2","3","4","5","6","7","8","9","10","11","12">>
IdOf(i) == <<"f", IdDigits[i]>>

SeqsUpTo(S, n) == UNION {[1..k -> S] : k \in 0..n}

\* A catalog: the items in store order, an item that has an id getting the
\* id of its position, so that ids are unique
Catalog(shapes) ==
    [i \in 1..Len(shapes) |->
        IF shapes[i].id = Absent THEN shapes[i] ELSE [shapes[i] EXCEPT !.id = IdOf(i)]]

ScorerShapes ==
    [id : {HasId, Absent},
     name : {ModernSofa},
     category : {living, lounge, LivingRoom, desk, NoneVal},
     style : {modern, PostModern, rustic},
     dimensions : {Dims(10, 10), Dims(10, 15), Dims(15, 10), Dims(20, 20),
                   Dims(25, 10), Dims(10, 25), Dims(NoNumber, 10), Dims(10, NoNumber),
                   NoDims, NullDims},
     available_colors : {List(<<white, gray>>)},
     tags : {List(<<sofa>>)}]

MixedShapes ==
    [id : {HasId, Absent},
     name : {ModernSofa},
     category : {living, desk},
     style : {modern, rustic},
     dimensions : {Dims(10, 10), NullDims},
     available_colors : {List(<<white, gray>>)},
     tags : {List(<<sofa>>)}]

LongShapes ==
    [id : {HasId},
     name : {ModernSofa},
     category : {living},
     style : {modern, rustic},
     dimensions : {Dims(10, 10)},
     available_colors : {List(<<white, gray>>)},
     tags : {List(<<sofa>>)}]

Profiles ==
    [room_type : {living, office, kitchen, Absent},
     style : {modern, Modern, Absent},
     space_size : {small, medium, large, Large, Absent}]

MixedProfiles ==
    [room_type : {living}, style : {modern}, space_size : {small, medium}]

LongProfile == [room_type |-> living, style |-> modern, space_size |-> small]

ReconcilerShapes ==
    [id : {HasId, Absent},
     name : {ModernSofa, Armchair},
     category : {living, LivingRoom, dining},
     style : {modern, Modern, rustic},
     dimensions : {Dims(10, 10), NoDims},
     available_colors : {List(<<white, gray>>), List(<<>>), NoList},
     tags : {List(<<sofa, modern>>), NoList}]

PairShapes ==
    [id : {HasId, Absent},
     name : {ModernSofa, Armchair},
     category : {living},
     style : {modern, rustic},
     dimensions : {Dims(10, 10)},
     available_colors : {List(<<white, gray>>)},
     tags : {NoList}]

Suggestions ==
    [furniture_type : {sofa, Sofa, hammock, Absent},
     category : {living, dining, Absent},
     preferred_style : {modern, Modern, rustic, Absent},
     reason : {ReasonText, Absent}]

PairSuggestions ==
    {[furniture_type |-> sofa, category |-> living, preferred_style |-> modern,
      reason |-> ReasonText],
     [furniture_type |-> sofa, category |-> living, preferred_style |-> rustic,
      reason |-> Absent],
     [furniture_type |-> hammock, category |-> living, preferred_style |-> Absent,
      reason |-> ReasonText]}

----------------------------------------------------------------------------
(* The two entry points, each called on inputs that are already in memory *)

\* No request is being handled
NoHandler == [route |-> "none"]

Start(analysis, catalog, recs) ==
    /\ room_analysis = analysis
    /\ furniture_catalog = catalog
    /\ recommendations = recs
    /\ stage = "ready"
    /\ matched_furniture = <<>>
    /\ mapped_assets = <<>>
    /\ error = "none"
    /\ calls = <<>>
    /\ lists = <<>>
    /\ handler = NoHandler
    /\ store = <<>>
    /\ reader = <<>>

\* One item of every shape against every profile
ScorerCases ==
    \E p \in Profiles, s \in ScorerShapes : Start(p, Catalog(<<s>>), <<>>)

\* Short catalogs that mix well-formed and malformed items
MixedCases ==
    \E p \in MixedProfiles, c \in SeqsUpTo(MixedShapes, MaxCatalog) :
        Start(p, Catalog(c), <<>>)

\* Catalogs with more qualifying items than the scorer returns
LongCases ==
    \E k \in (TopN - 1)..(TopN + MaxExtra) :
        \E c \in [1..k -> LongShapes] : Start(LongProfile, Catalog(c), <<>>)

\* One suggestion of every shape against one item of every shape
ReconcilerCases ==
    \E s \in ReconcilerShapes, r \in Suggestions :
        Start(LongProfile, Catalog(<<s>>), <<r>>)

\* Several suggestions against short catalogs
PairCases ==
    \E c \in SeqsUpTo(PairShapes, MaxCatalog), rs \in SeqsUpTo(PairSuggestions, MaxSuggestions) :
        Start(LongProfile, Catalog(c), rs)

Init == ScorerCases \/ MixedCases \/ LongCases \/ ReconcilerCases \/ PairCases

\* matched_furniture = RoomAnalysisService.match_furniture(room_analysis, furniture_catalog)
MatchFurniture ==
    /\ stage = "ready"
    /\ matched_furniture' = match_furniture(room_analysis, furniture_catalog)
    /\ stage' = "matched"
    /\ furniture_catalog' = CatalogAfterScoring(room_analysis, furniture_catalog)
    /\ UNCHANGED <<room_analysis, recommendations, mapped_assets, error,
                   calls, lists, handler>>
    /\ UNCHANGED <<store, reader>>

\* mapped_assets = ai_service.map_recommendations_to_assets(recommendations, available_furniture)
MapRecommendationsToAssets ==
    /\ stage = "ready"
    /\ LET r == map_recommendations_to_assets(recommendations, furniture_catalog)
       IN  /\ mapped_assets' = r.matched_assets
           /\ error' = r.error
           /\ stage' = IF r.error = "none" THEN "mapped" ELSE "raised"
    /\ UNCHANGED <<room_analysis, furniture_catalog, recommendations, matched_furniture,
                   calls, lists, handler>>
    /\ UNCHANGED <<store, reader>>

Next == MatchFurniture \/ MapRecommendationsToAssets

Spec == Init /\ [][Next]_vars

----------------------------------------------------------------------------
(* Concurrent invocations of the two entry points on one catalog list, each
   running its loop one iteration at a time *)

NumWorkers == 2
MaxCalls == 2

Workers == 1..NumWorkers

\* One list for all invocations
FrameOf_Shared(p) == 1

\* recommendations = [] and matched_assets = [] bind a local name: the list
\* lives in the frame of the invocation that created it
FrameOf(p) == p

\* The list of the previous call kept
NewList_Kept(previous) == previous

\* recommendations = [] / matched_assets = []: every call starts with a new
\* empty list
NewList(previous) == <<>>

GoodSofa ==
    [id |-> HasId, name |-> ModernSofa, category |-> living, style |-> modern,
     dimensions |-> Dims(10, 10), available_colors |-> List(<<white, gray>>),
     tags |-> List(<<sofa>>)]
RusticSofa == [GoodSofa EXCEPT !.style = rustic]
NullDimsSofa == [GoodSofa EXCEPT !.dimensions = NullDims]
NoIdSofa == [GoodSofa EXCEPT !.id = Absent]

SofaSuggestion ==
    [furniture_type |-> sofa, category |-> living, preferred_style |-> modern,
     reason |-> ReasonText]
HammockSuggestion ==
    [furniture_type |-> hammock, category |-> living, preferred_style |-> Absent,
     reason |-> ReasonText]

\* The catalog list the invocations share
SharedCatalogs ==
    {Catalog(<<GoodSofa, RusticSofa>>),
     Catalog(<<GoodSofa, NullDimsSofa>>),
     Catalog(<<NoIdSofa, GoodSofa>>)}

\* The arguments of an invocation
Invocations ==
    {[op |-> "match_furniture", room_analysis |-> a, recommendations |-> <<>>] :
        a \in MixedProfiles}
    \cup
    {[op |-> "map_recommendations_to_assets", room_analysis |-> LongProfile,
      recommendations |-> rs] :
        rs \in {<<HammockSuggestion, SofaSuggestion>>}}

\* What a call gave back: the returned list, or the exception it raised
Returned(value) == [error |-> "none", value |-> value]
Raised(exception) == [error |-> exception, value |-> <<>>]

\* An invocation that has not been called yet
NewCall(invocation) ==
    [op |-> invocation.op,
     room_analysis |-> invocation.room_analysis,
     recommendations |-> invocation.recommendations,
     pc |-> "idle", i |-> 1, results |-> <<>>]

InitInvocations ==
    /\ \E c \in SharedCatalogs, w \in [Workers -> Invocations] :
          /\ furniture_catalog = c
          /\ calls = [p \in Workers |-> NewCall(w[p])]
    /\ lists = [p \in Workers |-> <<>>]
    /\ room_analysis = LongProfile
    /\ recommendations = <<>>
    /\ stage = "concurrent"
    /\ matched_furniture = <<>>
    /\ mapped_assets = <<>>
    /\ error = "none"
    /\ handler = NoHandler
    /\ store = <<>>
    /\ reader = <<>>

\* The call is entered: the local list is created (line 114, line 225) and
\* the profile fields are read (match_furniture, lines 117-119)
Call(p) ==
    /\ calls[p].pc = "idle"
    /\ Len(calls[p].results) < MaxCalls
    /\ lists' = [lists EXCEPT ![FrameOf(p)] = NewList(@)]
    /\ calls' = IF calls[p].op = "match_furniture" /\ ProfileRaises(calls[p].room_analysis)
                THEN [calls EXCEPT ![p].results = Append(@, Returned(<<>>))]
                ELSE [calls EXCEPT ![p].pc = "loop", ![p].i = 1]
    /\ UNCHANGED <<room_analysis, furniture_catalog, recommendations, stage,
                   matched_furniture, mapped_assets, error, handler>>
    /\ UNCHANGED <<store, reader>>

\* One iteration of 'for item in furniture_catalog' of match_furniture; an
\* exception ends the call in the except branch, which returns []
ScoreNextItem(p) ==
    /\ calls[p].op = "match_furniture"
    /\ calls[p].pc = "loop"
    /\ calls[p].i <= Len(furniture_catalog)
    /\ LET item == furniture_catalog[calls[p].i]
           room_type == Lower(Get(calls[p].room_analysis.room_type, living))
           style_preference == Lower(Get(calls[p].room_analysis.style, modern))
           space_size == Lower(Get(calls[p].room_analysis.space_size, medium))
       IN  IF ItemRaises(item, space_size)
           THEN /\ calls' = [calls EXCEPT ![p].pc = "idle",
                                          ![p].results = Append(@, Returned(<<>>))]
                /\ UNCHANGED <<lists, furniture_catalog>>
           ELSE LET scored == ScoreItem(item, room_type, style_preference, space_size)
                IN  /\ lists' = [lists EXCEPT ![FrameOf(p)] =
                                    IF Qualifies(scored)
                                    THEN Append(@, Recommendation(item, scored))
                                    ELSE @]
                    /\ furniture_catalog' =
                          [furniture_catalog EXCEPT ![calls[p].i] =
                              ItemAfterScoring(item, scored)]
                    /\ calls' = [calls EXCEPT ![p].i = @ + 1]
    /\ UNCHANGED <<room_analysis, recommendations, stage,
                   matched_furniture, mapped_assets, error, handler>>
    /\ UNCHANGED <<store, reader>>

\* recommendations.sort(...); return recommendations[:8]
ReturnRecommendations(p) ==
    /\ calls[p].op = "match_furniture"
    /\ calls[p].pc = "loop"
    /\ calls[p].i > Len(furniture_catalog)
    /\ calls' = [calls EXCEPT ![p].pc = "idle",
                              ![p].results =
                                 Append(@, Returned(Truncate(SortByScore(lists[FrameOf(p)]))))]
    /\ UNCHANGED <<room_analysis, furniture_catalog, recommendations, stage,
                   matched_furniture, mapped_assets, error, lists, handler>>
    /\ UNCHANGED <<store, reader>>

\* One iteration of 'for rec in recommendations' of
\* map_recommendations_to_assets, the scan of the catalog included; an
\* exception leaves the call
MapNextSuggestion(p) ==
    /\ calls[p].op = "map_recommendations_to_assets"
    /\ calls[p].pc = "loop"
    /\ calls[p].i <= Len(calls[p].recommendations)
    /\ LET rec == calls[p].recommendations[calls[p].i]
           j == FirstMatch(rec, furniture_catalog)
       IN  IF j = 0
           THEN /\ calls' = [calls EXCEPT ![p].i = @ + 1]
                /\ UNCHANGED lists
           ELSE IF j = ScanRaised
           THEN /\ calls' = [calls EXCEPT ![p].pc = "idle",
                                          ![p].results = Append(@, Raised("AttributeError"))]
                /\ UNCHANGED lists
           ELSE IF EntryError(furniture_catalog[j]) # "none"
           THEN /\ calls' = [calls EXCEPT ![p].pc = "idle",
                                          ![p].results =
                                             Append(@, Raised(EntryError(furniture_catalog[j])))]
                /\ UNCHANGED lists
           ELSE /\ lists' = [lists EXCEPT ![FrameOf(p)] =
                                Append(@, MatchedAsset(rec, furniture_catalog[j]))]
                /\ calls' = [calls EXCEPT ![p].i = @ + 1]
    /\ UNCHANGED <<room_analysis, furniture_catalog, recommendations, stage,
                   matched_furniture, mapped_assets, error, handler>>
    /\ UNCHANGED <<store, reader>>

\* return matched_assets
ReturnMatchedAssets(p) ==
    /\ calls[p].op = "map_recommendations_to_assets"
    /\ calls[p].pc = "loop"
    /\ calls[p].i > Len(calls[p].recommendations)
    /\ calls' = [calls EXCEPT ![p].pc = "idle",
                              ![p].results = Append(@, Returned(lists[FrameOf(p)]))]
    /\ UNCHANGED <<room_analysis, furniture_catalog, recommendations, stage,
                   matched_furniture, mapped_assets, error, lists, handler>>
    /\ UNCHANGED <<store, reader>>

NextInvocations ==
    \E p \in Workers :
        \/ Call(p)
        \/ ScoreNextItem(p)
        \/ ReturnRecommendations(p)
        \/ MapNextSuggestion(p)
        \/ ReturnMatchedAssets(p)

SpecInvocations == InitInvocations /\ [][NextInvocations]_vars

----------------------------------------------------------------------------
(* The two analyze-room request handlers: POST /analyze-room of
   room_analysis_routes and POST /api/analyze-room of ai_routes *)

png == <<"p","n","g">>
jpg == <<"j","p","g">>
jpeg == <<"j","p","e","g">>
webp == <<"w","e","b","p">>
ALLOWED_EXTENSIONS == {png, jpg, jpeg, webp}

\* 10 * 1024 * 1024 bytes, sizes being counted in megabytes
MaxUploadMB == 10

RoomPng == <<"r",".","p","n","g">>
RoomUpperPng == <<"r",".","P","N","G">>
RoomGif == <<"r",".","g","i","f">>
NoDotName == <<"p","n","g">>

\* filename.rsplit('.', 1)[1].lower() if '.' in filename else ''
FileExt(filename) ==
    IF InList(".", filename)
    THEN LET dot == CHOOSE i \in 1..Len(filename) :
                        /\ filename[i] = "."
                        /\ \A j \in (i + 1)..Len(filename) : filename[j] # "."
         IN  Lower(SubSeq(filename, dot + 1, Len(filename)))
    ELSE EmptyStr

\* Config.allowed_file(filename)
allowed_file(filename) ==
    InList(".", filename) /\ FileExt(filename) \in ALLOWED_EXTENSIONS

\* The multipart body of a request
Uploads ==
    [has_image : BOOLEAN,
     filename : {EmptyStr, RoomPng, RoomUpperPng, RoomGif, NoDotName},
     megabytes : {1, MaxUploadMB + 1}]

\* The size check ahead of the extension check
ValidationError_SizeFirst(route, upload) ==
    IF ~ upload.has_image THEN "No image file provided"
    ELSE IF upload.filename = EmptyStr
    THEN IF route = "room_analysis" THEN "No file selected" ELSE "Empty filename"
    ELSE IF route = "room_analysis" /\ upload.megabytes > MaxUploadMB
    THEN "File too large. Maximum size: 10MB"
    ELSE IF route = "room_analysis" /\ FileExt(upload.filename) \notin ALLOWED_EXTENSIONS
    THEN "Invalid file type. Allowed: png, jpg, jpeg, webp"
    ELSE IF route = "ai" /\ ~ allowed_file(upload.filename)
    THEN "Invalid file type. Allowed: png, jpg, jpeg, webp"
    ELSE "none"

\* The error message of the first check of the handler that the upload fails,
\* "none" when it passes them all
ValidationError(route, upload) ==
    IF ~ upload.has_image THEN "No image file provided"
    ELSE IF upload.filename = EmptyStr
    THEN IF route = "room_analysis" THEN "No file selected" ELSE "Empty filename"
    ELSE IF route = "room_analysis" /\ FileExt(upload.filename) \notin ALLOWED_EXTENSIONS
    THEN "Invalid file type. Allowed: png, jpg, jpeg, webp"
    ELSE IF route = "ai" /\ ~ allowed_file(upload.filename)
    THEN "Invalid file type. Allowed: png, jpg, jpeg, webp"
    ELSE IF route = "room_analysis" /\ upload.megabytes > MaxUploadMB
    THEN "File too large. Maximum size: 10MB"
    ELSE "none"

\* The analysis analyze_room_image falls back to when the vision response
\* holds no JSON object
FallbackAnalysis == [room_type |-> living, style |-> modern, space_size |-> medium]

\* What analyze_room_image returns
HandlerProfiles ==
    {[room_type |-> living, style |-> modern, space_size |-> small],
     [room_type |-> living, style |-> modern, space_size |-> Absent],
     FallbackAnalysis}

\* analysis.get('recommendations', []) of what analyze_room returns
HandlerSuggestionLists ==
    {<<>>, <<SofaSuggestion>>, <<HammockSuggestion, SofaSuggestion>>}

\* What the catalog store holds
HandlerCatalogs == SharedCatalogs \cup {<<>>}

\* DataService._data after DataService._load(): the contents of models.json,
\* or [] when reading it failed (the exception is logged, not raised)
LoadedData(file_read, contents) == IF file_read THEN contents ELSE <<>>

\* A request as it enters its handler
NewRequest(route, upload) ==
    [route |-> route, upload |-> upload, pc |-> "validate",
     vision |-> "pending", fetch |-> "pending", engine_calls |-> 0,
     file |-> "none", status |-> 0, message |-> "none"]

\* return jsonify(...), status
Respond(h, status, message) ==
    [h EXCEPT !.pc = "done", !.status = status, !.message = message]

EmptyAnalysis == [room_type |-> Absent, style |-> Absent, space_size |-> Absent]

InitHandlers ==
    /\ \E route \in {"room_analysis", "ai"}, upload \in Uploads :
          handler = NewRequest(route, upload)
    /\ room_analysis = EmptyAnalysis
    /\ furniture_catalog = <<>>
    /\ recommendations = <<>>
    /\ stage = "request"
    /\ matched_furniture = <<>>
    /\ mapped_assets = <<>>
    /\ error = "none"
    /\ calls = <<>>
    /\ lists = <<>>
    /\ store = <<>>
    /\ reader = <<>>

\* The upload checks at the head of both handlers
ValidateUpload ==
    /\ handler.route # "none"
    /\ handler.pc = "validate"
    /\ LET e == ValidationError(handler.route, handler.upload)
       IN  handler' = IF e # "none" THEN Respond(handler, 400, e)
                      ELSE [handler EXCEPT !.pc = IF handler.route = "ai"
                                                  THEN "save" ELSE "analyze"]
    /\ UNCHANGED <<room_analysis, furniture_catalog, recommendations, stage,
                   matched_furniture, mapped_assets, error, calls, lists>>
    /\ UNCHANGED <<store, reader>>

\* ai_routes: os.makedirs(upload_folder); file.save(file_path)
SaveUpload ==
    /\ handler.route = "ai"
    /\ handler.pc = "save"
    /\ \E saved \in BOOLEAN :
          handler' = IF saved THEN [handler EXCEPT !.pc = "analyze", !.file = "saved"]
                     ELSE Respond(handler, 500, "OSError")
    /\ UNCHANGED <<room_analysis, furniture_catalog, recommendations, stage,
                   matched_furniture, mapped_assets, error, calls, lists>>
    /\ UNCHANGED <<store, reader>>

\* room_analysis_routes: room_analysis = RoomAnalysisService.analyze_room_image(image_data)
AnalyzeRoomImage ==
    /\ handler.route = "room_analysis"
    /\ handler.pc = "analyze"
    /\ \/ /\ \E a \in HandlerProfiles : room_analysis' = a
          /\ handler' = [handler EXCEPT !.pc = "fetch", !.vision = "ok"]
       \/ /\ handler' = Respond([handler EXCEPT !.vision = "failed"], 500,
                                "Failed to analyze room")
          /\ UNCHANGED room_analysis
    /\ UNCHANGED <<furniture_catalog, recommendations, stage,
                   matched_furniture, mapped_assets, error, calls, lists>>
    /\ UNCHANGED <<store, reader>>

\* ai_routes: analysis = ai_service.analyze_room(file_path)
AnalyzeRoom ==
    /\ handler.route = "ai"
    /\ handler.pc = "analyze"
    /\ \/ /\ \E rs \in HandlerSuggestionLists : recommendations' = rs
          /\ handler' = [handler EXCEPT !.pc = "fetch", !.vision = "ok"]
       \/ /\ handler' = Respond([handler EXCEPT !.vision = "failed"], 500, "HTTPError")
          /\ UNCHANGED recommendations
    /\ UNCHANGED <<room_analysis, furniture_catalog, stage,
                   matched_furniture, mapped_assets, error, calls, lists>>
    /\ UNCHANGED <<store, reader>>

\* room_analysis_routes: furniture_catalog = DataService.get_furniture_list();
\* a failed load of models.json gives the empty list and no exception
DataServiceGetFurnitureList ==
    /\ handler.route = "room_analysis"
    /\ handler.pc = "fetch"
    /\ \E file_read \in BOOLEAN, contents \in HandlerCatalogs :
          /\ furniture_catalog' = LoadedData(file_read, contents)
          /\ handler' = [handler EXCEPT !.pc = "engine",
                                        !.fetch = IF file_read THEN "ok" ELSE "failed"]
    /\ UNCHANGED <<room_analysis, recommendations, stage,
                   matched_furniture, mapped_assets, error, calls, lists>>
    /\ UNCHANGED <<store, reader>>

\* ai_routes: available_furniture = SupabaseService.get_furniture_list(),
\* which logs and re-raises a failed request
SupabaseGetFurnitureList ==
    /\ handler.route = "ai"
    /\ handler.pc = "fetch"
    /\ \/ /\ \E contents \in HandlerCatalogs : furniture_catalog' = contents
          /\ handler' = [handler EXCEPT !.pc = "engine", !.fetch = "ok"]
       \/ /\ handler' = Respond([handler EXCEPT !.fetch = "failed"], 500, "HTTPError")
          /\ UNCHANGED furniture_catalog
    /\ UNCHANGED <<room_analysis, recommendations, stage,
                   matched_furniture, mapped_assets, error, calls, lists>>
    /\ UNCHANGED <<store, reader>>

\* room_analysis_routes: matched_furniture = RoomAnalysisService.match_furniture(...)
HandlerMatchFurniture ==
    /\ handler.route = "room_analysis"
    /\ handler.pc = "engine"
    /\ matched_furniture' = match_furniture(room_analysis, furniture_catalog)
    /\ furniture_catalog' = CatalogAfterScoring(room_analysis, furniture_catalog)
    /\ handler' = [handler EXCEPT !.pc = "respond", !.engine_calls = @ + 1]
    /\ UNCHANGED <<room_analysis, recommendations, stage,
                   mapped_assets, error, calls, lists>>
    /\ UNCHANGED <<store, reader>>

\* room_analysis_routes: generate_detailed_recommendations (which returns its
\* stock tips when the model call fails) and the 200 response
RespondRoomAnalysis ==
    /\ handler.route = "room_analysis"
    /\ handler.pc = "respond"
    /\ handler' = Respond(handler, 200, "none")
    /\ UNCHANGED <<room_analysis, furniture_catalog, recommendations, stage,
                   matched_furniture, mapped_assets, error, calls, lists>>
    /\ UNCHANGED <<store, reader>>

\* ai_routes: mapped_assets = ai_service.map_recommendations_to_assets(...);
\* an exception goes to the handler's except branch
HandlerMapRecommendations ==
    /\ handler.route = "ai"
    /\ handler.pc = "engine"
    /\ LET r == map_recommendations_to_assets(recommendations, furniture_catalog)
       IN  /\ mapped_assets' = r.matched_assets
           /\ error' = r.error
           /\ handler' = IF r.error = "none"
                         THEN [handler EXCEPT !.pc = "cleanup", !.engine_calls = @ + 1]
                         ELSE Respond([handler EXCEPT !.engine_calls = @ + 1], 500, r.error)
    /\ UNCHANGED <<room_analysis, furniture_catalog, recommendations, stage,
                   matched_furniture, calls, lists>>
    /\ UNCHANGED <<store, reader>>

\* ai_routes: try: os.remove(file_path) except: pass
RemoveUpload ==
    /\ handler.route = "ai"
    /\ handler.pc = "cleanup"
    /\ \E removed \in BOOLEAN :
          handler' = [handler EXCEPT !.pc = "respond",
                                     !.file = IF removed THEN "removed" ELSE @]
    /\ UNCHANGED <<room_analysis, furniture_catalog, recommendations, stage,
                   matched_furniture, mapped_assets, error, calls, lists>>
    /\ UNCHANGED <<store, reader>>

\* ai_routes: the 200 response with the mapped assets
RespondAssets ==
    /\ handler.route = "ai"
    /\ handler.pc = "respond"
    /\ handler' = Respond(handler, 200, "none")
    /\ UNCHANGED <<room_analysis, furniture_catalog, recommendations, stage,
                   matched_furniture, mapped_assets, error, calls, lists>>
    /\ UNCHANGED <<store, reader>>

NextHandlers ==
    \/ ValidateUpload
    \/ SaveUpload
    \/ AnalyzeRoomImage
    \/ AnalyzeRoom
    \/ DataServiceGetFurnitureList
    \/ SupabaseGetFurnitureList
    \/ HandlerMatchFurniture
    \/ RespondRoomAnalysis
    \/ HandlerMapRecommendations
    \/ RemoveUpload
    \/ RespondAssets

SpecHandlers == InitHandlers /\ [][NextHandlers]_vars

----------------------------------------------------------------------------
(* DataService: the catalog store, its list cls._data and the dicts in it as
   objects that the callers of get_furniture_list share with the store *)

MaxStoreOps == 3

\* A stored item with the id of its number
StoreItem(n) == [GoodSofa EXCEPT !.id = IdOf(n)]

\* The furniture_data of a create_furniture call
StoreNewItems == {StoreItem(1), [StoreItem(3) EXCEPT !.style = rustic]}

\* The updates of an update_furniture call
StoreUpdates == {[style |-> rustic], [id |-> IdOf(2)]}

\* The furniture_id of an update_furniture or delete_furniture call
StoreIds == {IdOf(1), IdOf(2), IdOf(3)}

\* The items of the list object l, as values
Contents(st, l) == [k \in 1..Len(st.lists[l]) |-> st.dicts[st.lists[l][k]]]

\* get_furniture_list() without filters: result = cls._data; return result
get_furniture_list(st) == st.data

\* cls._data.append(furniture_data); return furniture_data.get('id', '')
create_furniture(st, furniture_data) ==
    [store |-> [st EXCEPT !.dicts = Append(@, furniture_data),
                          !.lists[st.data] = Append(@, Len(st.dicts) + 1)],
     result |-> Get(furniture_data.id, EmptyStr)]

\* The first item with the id gets cls._data[i].update(updates), in place
update_furniture(st, furniture_id, updates) ==
    LET list == st.lists[st.data]
        hits == {k \in 1..Len(list) : st.dicts[list[k]].id = furniture_id}
    IN  IF hits = {} THEN [store |-> st, result |-> FALSE]
        ELSE LET i == CHOOSE k \in hits : \A h \in hits : k <= h
             IN  [store |-> [st EXCEPT !.dicts[list[i]] = updates @@ @],
                  result |-> TRUE]

\* Only the first item with the id is taken out
delete_furniture_FirstOnly(st, furniture_id) ==
    LET list == st.lists[st.data]
        hits == {k \in 1..Len(list) : st.dicts[list[k]].id = furniture_id}
        first == CHOOSE k \in hits : \A h \in hits : k <= h
        kept == IF hits = {} THEN list
                ELSE SubSeq(list, 1, first - 1) \o SubSeq(list, first + 1, Len(list))
    IN  [store |-> [st EXCEPT !.lists = Append(@, kept), !.data = Len(st.lists) + 1],
         result |-> Len(kept) < Len(list)]

\* cls._data = [f for f in cls._data if f['id'] != furniture_id]: cls._data is
\* bound to a new list; True when the new list is shorter
delete_furniture(st, furniture_id) ==
    LET list == st.lists[st.data]
        kept == SelectSeq(list, LAMBDA a : st.dicts[a].id # furniture_id)
    IN  [store |-> [st EXCEPT !.lists = Append(@, kept), !.data = Len(st.lists) + 1],
         result |-> Len(kept) < Len(list)]

\* A store loaded with items of pairwise distinct ids, and a request that has
\* not fetched the catalog yet
InitStore ==
    /\ \E n \in 0..MaxCatalog :
          store = [data |-> 1,
                   lists |-> << [k \in 1..n |-> k] >>,
                   dicts |-> [k \in 1..n |-> StoreItem(k)],
                   ops |-> 0,
                   last |-> [op |-> "none", arg |-> <<>>, result |-> FALSE, before |-> <<>>]]
    /\ reader = [list |-> 0, snapshot |-> <<>>, i |-> 1, seen |-> <<>>]
    /\ room_analysis = LongProfile
    /\ furniture_catalog = <<>>
    /\ recommendations = <<>>
    /\ stage = "store"
    /\ matched_furniture = <<>>
    /\ mapped_assets = <<>>
    /\ error = "none"
    /\ calls = <<>>
    /\ lists = <<>>
    /\ handler = NoHandler

\* room_analysis_routes: furniture_catalog = DataService.get_furniture_list()
GetFurnitureList ==
    /\ stage = "store"
    /\ reader.list = 0
    /\ reader' = [reader EXCEPT !.list = get_furniture_list(store),
                                !.snapshot = Contents(store, get_furniture_list(store))]
    /\ UNCHANGED <<room_analysis, furniture_catalog, recommendations, stage,
                   matched_furniture, mapped_assets, error, calls, lists, handler, store>>

\* One iteration of 'for item in furniture_catalog' of the request that holds
\* the list
ReadNextItem ==
    /\ stage = "store"
    /\ reader.list # 0
    /\ reader.i <= Len(store.lists[reader.list])
    /\ reader' = [reader EXCEPT !.i = @ + 1,
                                !.seen = Append(@, store.dicts[store.lists[reader.list][reader.i]])]
    /\ UNCHANGED <<room_analysis, furniture_catalog, recommendations, stage,
                   matched_furniture, mapped_assets, error, calls, lists, handler, store>>

\* Another request calls DataService.create_furniture(furniture_data)
CreateFurniture ==
    /\ stage = "store"
    /\ store.ops < MaxStoreOps
    /\ \E furniture_data \in StoreNewItems :
          LET r == create_furniture(store, furniture_data)
          IN  store' = [r.store EXCEPT !.ops = @ + 1,
                                       !.last = [op |-> "create_furniture",
                                                 arg |-> furniture_data.id,
                                                 result |-> r.result,
                                                 before |-> Contents(store, store.data)]]
    /\ UNCHANGED <<room_analysis, furniture_catalog, recommendations, stage,
                   matched_furniture, mapped_assets, error, calls, lists, handler, reader>>

\* Another request calls DataService.update_furniture(furniture_id, updates)
UpdateFurniture ==
    /\ stage = "store"
    /\ store.ops < MaxStoreOps
    /\ \E furniture_id \in StoreIds, updates \in StoreUpdates :
          LET r == update_furniture(store, furniture_id, updates)
          IN  store' = [r.store EXCEPT !.ops = @ + 1,
                                       !.last = [op |-> "update_furniture",
                                                 arg |-> furniture_id,
                                                 result |-> r.result,
                                                 before |-> Contents(store, store.data)]]
    /\ UNCHANGED <<room_analysis, furniture_catalog, recommendations, stage,
                   matched_furniture, mapped_assets, error, calls, lists, handler, reader>>

\* Another request calls DataService.delete_furniture(furniture_id)
DeleteFurniture ==
    /\ stage = "store"
    /\ store.ops < MaxStoreOps
    /\ \E furniture_id \in StoreIds :
          LET r == delete_furniture(store, furniture_id)
          IN  store' = [r.store EXCEPT !.ops = @ + 1,
                                       !.last = [op |-> "delete_furniture",
                                                 arg |-> furniture_id,
                                                 result |-> r.result,
                                                 before |-> Contents(store, store.data)]]
    /\ UNCHANGED <<room_analysis, furniture_catalog, recommendations, stage,
                   matched_furniture, mapped_assets, error, calls, lists, handler, reader>>

NextStore ==
    \/ GetFurnitureList
    \/ ReadNextItem
    \/ CreateFurniture
    \/ UpdateFurniture
    \/ DeleteFurniture

SpecStore == InitStore /\ [][NextStore]_vars

----------------------------------------------------------------------------
(* Vocabulary of the properties *)

HasReason(reasons, text) == \E i \in 1..Len(reasons) : reasons[i].text = text

CountReasons(reasons, texts) == Cardinality({i \in 1..Len(reasons) : reasons[i].text \in texts})

SizeReasonTexts == {CompactReason, StatementReason, VersatileReason}

\* The profile fields as the scorer reads them
RoomTypeOf(analysis) == Lower(Get(analysis.room_type, living))
StyleOf(analysis) == Lower(Get(analysis.style, modern))
SpaceSizeOf(analysis) == Lower(Get(analysis.space_size, medium))

\* The call returned normally, no item having raised inside it
ScoredAll ==
    /\ stage = "matched"
    /\ ~ \E i \in 1..Len(furniture_catalog) :
            ItemRaises(furniture_catalog[i], SpaceSizeOf(room_analysis))

\* The position in the catalog of the item with this id
Position(id) == CHOOSE i \in 1..Len(furniture_catalog) : furniture_catalog[i].id = id

----------------------------------------------------------------------------
(* C1: match_furniture returns at most 8 items, each with a
   recommendation_score of at least 50, in non-increasing order of score. *)
C1_AtMostEightSortedAboveThreshold ==
    stage = "matched" =>
        /\ Len(matched_furniture) <= 8
        /\ \A i \in 1..Len(matched_furniture) :
              matched_furniture[i].recommendation_score >= 50
        /\ \A i, j \in 1..Len(matched_furniture) :
              i < j => matched_furniture[i].recommendation_score
                          >= matched_furniture[j].recommendation_score

\* More than 8 items qualified, of different scores, and 8 came back
C1_Witness ==
    /\ stage = "matched"
    /\ Len(furniture_catalog) > 8
    /\ Len(matched_furniture) = 8
    /\ matched_furniture[1].recommendation_score > matched_furniture[8].recommendation_score
    /\ furniture_catalog[1].style = rustic

----------------------------------------------------------------------------
(* C2 as stated: every item gets exactly one of the three size reasons,
   never none and never two. *)
C2_ExactlyOneSizeOutcome ==
    stage = "matched" =>
        \A i \in 1..Len(matched_furniture) :
            CountReasons(matched_furniture[i].reasons, SizeReasonTexts) = 1

\* The width and the depth the size test of a small (large) room compares
C2_Width(item, default) ==
    IF item.dimensions.kind = "dict" /\ item.dimensions.width # NoNumber
    THEN item.dimensions.width ELSE default

C2_Depth(item, default) ==
    IF item.dimensions.kind = "dict" /\ item.dimensions.depth # NoNumber
    THEN item.dimensions.depth ELSE default

\* The size reasons an item is to get in a room of this space size
C2_SizeReasons(item, space_size) ==
    IF space_size = small
    THEN IF C2_Width(item, 20) < 15 /\ C2_Depth(item, 20) < 15
         THEN <<CompactReason>> ELSE <<>>
    ELSE IF space_size = large
    THEN IF C2_Width(item, 10) > 20 \/ C2_Depth(item, 10) > 20
         THEN <<StatementReason>> ELSE <<>>
    ELSE <<VersatileReason>>

C2_SizeTexts(reasons) ==
    LET sel == SelectSeq(reasons, LAMBDA r : r.text \in SizeReasonTexts)
    IN  [k \in 1..Len(sel) |-> sel[k].text]

C2_BonusOf(texts) ==
    IF texts = <<>> THEN 0 ELSE IF texts = <<VersatileReason>> THEN 10 ELSE 20

(* C2 amended: every item gets at most one size outcome: +10 "Versatile size
   for medium spaces" exactly when the space size is neither small nor large,
   +20 "Compact size fits small spaces" exactly when the room is small and
   width and depth are both below 1.5, +20 "Statement piece for larger rooms"
   exactly when the room is large and width or depth exceeds 2; an item that
   fails the threshold test of a small or a large room gets no size bonus. *)
C2_AtMostOneSizeOutcome ==
    ScoredAll =>
        /\ \A i \in 1..Len(furniture_catalog) :
              LET item == furniture_catalog[i]
                  scored == ScoreItem(item, RoomTypeOf(room_analysis),
                                      StyleOf(room_analysis), SpaceSizeOf(room_analysis))
                  want == C2_SizeReasons(item, SpaceSizeOf(room_analysis))
              IN  /\ C2_SizeTexts(scored.reasons) = want
                  /\ scored.score = C2_BonusOf(want)
                        + (IF HasReason(scored.reasons, CategoryReason) THEN 50 ELSE 0)
                        + (IF HasReason(scored.reasons, StyleReason) THEN 30 ELSE 0)
        /\ \A i \in 1..Len(matched_furniture) :
              LET r == matched_furniture[i]
                  want == C2_SizeReasons(r, SpaceSizeOf(room_analysis))
              IN  /\ C2_SizeTexts(r.reasons) = want
                  /\ r.recommendation_score = C2_BonusOf(want)
                        + (IF HasReason(r.reasons, CategoryReason) THEN 50 ELSE 0)
                        + (IF HasReason(r.reasons, StyleReason) THEN 30 ELSE 0)

\* An item too big for a small room came back with no size reason
C2_Witness ==
    /\ ScoredAll
    /\ SpaceSizeOf(room_analysis) = small
    /\ Len(matched_furniture) = 1
    /\ matched_furniture[1].dimensions = Dims(10, 15)
    /\ CountReasons(matched_furniture[1].reasons, SizeReasonTexts) = 0
    /\ matched_furniture[1].recommendation_score = 80

----------------------------------------------------------------------------
\* The lookup table of the claim: room type -> category set
C3_Table(room_type) ==
    CASE room_type = living -> {living, lounge}
      [] room_type = bedroom -> {bedroom, bed}
      [] room_type = dining -> {dining, kitchen}
      [] room_type = office -> {office, study, desk}
      [] OTHER -> {living}

C3_KnownRoom == RoomTypeOf(room_analysis) \in {living, bedroom, dining, office}

(* C3 as stated: the category bonus (+50, once, "Perfect for your {roomType}
   room") is awarded if and only if the item's category is a member of the
   category set of the profile's room type. *)
C3_CategoryBonusIffMember ==
    (ScoredAll /\ C3_KnownRoom) =>
        \A i \in 1..Len(matched_furniture) :
            LET r == matched_furniture[i]
            IN  HasReason(r.reasons, CategoryReason)
                   <=> Lower(Get(r.category, EmptyStr)) \in C3_Table(RoomTypeOf(room_analysis))

(* C3 amended: the category bonus of exactly +50 is awarded, once and with the
   reason "Perfect for your {roomType} room" naming the lower-cased room type,
   if and only if some entry of the category set of the room type is a
   substring of the item's lower-cased category. *)
C3_CategoryBonusIffSubstring ==
    (ScoredAll /\ C3_KnownRoom) =>
        /\ \A i \in 1..Len(furniture_catalog) :
              LET item == furniture_catalog[i]
                  scored == ScoreItem(item, RoomTypeOf(room_analysis),
                                      StyleOf(room_analysis), SpaceSizeOf(room_analysis))
                  hit == \E cat \in C3_Table(RoomTypeOf(room_analysis)) :
                             IsSubstring(cat, Lower(Get(item.category, EmptyStr)))
              IN  /\ CountReasons(scored.reasons, {CategoryReason}) = IF hit THEN 1 ELSE 0
                  /\ scored.score = (IF hit THEN 50 ELSE 0)
                        + (IF HasReason(scored.reasons, StyleReason) THEN 30 ELSE 0)
                        + C2_BonusOf(C2_SizeTexts(scored.reasons))
        /\ \A i \in 1..Len(matched_furniture) :
              LET r == matched_furniture[i]
                  hit == \E cat \in C3_Table(RoomTypeOf(room_analysis)) :
                             IsSubstring(cat, Lower(Get(r.category, EmptyStr)))
              IN  /\ CountReasons(r.reasons, {CategoryReason}) = IF hit THEN 1 ELSE 0
                  /\ hit => r.reasons[1] = [text |-> CategoryReason,
                                            arg |-> RoomTypeOf(room_analysis)]
                  /\ r.recommendation_score = (IF hit THEN 50 ELSE 0)
                        + (IF HasReason(r.reasons, StyleReason) THEN 30 ELSE 0)
                        + C2_BonusOf(C2_SizeTexts(r.reasons))

\* A "Living Room" item got the category bonus of a living room
C3_Witness ==
    /\ ScoredAll
    /\ RoomTypeOf(room_analysis) = living
    /\ Len(matched_furniture) = 1
    /\ matched_furniture[1].category = LivingRoom
    /\ HasReason(matched_furniture[1].reasons, CategoryReason)

----------------------------------------------------------------------------
\* The ids of the returned items that carry the category reason
C4_CategoryAwarded(recs) ==
    {recs[i].id : i \in {k \in 1..Len(recs) : HasReason(recs[k].reasons, CategoryReason)}}

(* C4: for a room type that is not a key of the lookup table, the category
   bonuses awarded are those awarded for room type "living". *)
C4_UnknownRoomScoredAsLiving ==
    (ScoredAll /\ ~C3_KnownRoom) =>
        C4_CategoryAwarded(matched_furniture)
           = C4_CategoryAwarded(match_furniture([room_analysis EXCEPT !.room_type = living],
                                                furniture_catalog))

----------------------------------------------------------------------------
(* C5: two returned items of equal recommendation_score are in catalog
   order: the one earlier in the input catalog is earlier in the output. *)
C5_TiesInCatalogOrder ==
    stage = "matched" =>
        \A p, q \in 1..Len(matched_furniture) :
            (/\ p < q
             /\ matched_furniture[p].recommendation_score
                   = matched_furniture[q].recommendation_score
             /\ matched_furniture[p].id # Absent
             /\ matched_furniture[q].id # Absent)
            => Position(matched_furniture[p].id) < Position(matched_furniture[q].id)

\* Tied items came back, behind an item the sort moved ahead of them
C5_Witness ==
    /\ stage = "matched"
    /\ Len(matched_furniture) >= 3
    /\ matched_furniture[2].recommendation_score = matched_furniture[3].recommendation_score
    /\ matched_furniture[1].recommendation_score > matched_furniture[2].recommendation_score
    /\ Position(matched_furniture[1].id) > Position(matched_furniture[3].id)

----------------------------------------------------------------------------
\* The ids of the items of the catalog
CatalogIds ==
    {furniture_catalog[j].id : j \in 1..Len(furniture_catalog)} \ {Absent}

(* C6: map_recommendations_to_assets returns no more entries than there are
   suggestions, at most one per suggestion (the entries follow the
   suggestions in order, each carrying the reason of its own suggestion),
   and every asset_id is the id of an item of the catalog. *)
C6_AtMostOnePerSuggestionFromCatalog ==
    stage = "mapped" =>
        /\ Len(mapped_assets) <= Len(recommendations)
        /\ \A k \in 1..Len(mapped_assets) : mapped_assets[k].asset_id \in CatalogIds
        /\ \E f \in [1..Len(mapped_assets) -> 1..Len(recommendations)] :
              /\ \A k, l \in 1..Len(mapped_assets) : k < l => f[k] < f[l]
              /\ \A k \in 1..Len(mapped_assets) :
                    mapped_assets[k].reason = Get(recommendations[f[k]].reason, EmptyStr)

\* Two suggestions, both matched, against a catalog where two items accept one
C6_Witness ==
    /\ stage = "mapped"
    /\ Len(recommendations) = 2
    /\ Len(mapped_assets) = 2
    /\ Cardinality({j \in 1..Len(furniture_catalog) :
                       Accepts(recommendations[1], furniture_catalog[j])}) = 2

----------------------------------------------------------------------------
\* The items that satisfy typeMatch and categoryMatch of suggestion i
C7_Accepting(i) ==
    {j \in 1..Len(furniture_catalog) :
        /\ \/ IsSubstring(Lower(Get(recommendations[i].furniture_type, EmptyStr)),
                          Lower(Get(furniture_catalog[j].name, EmptyStr)))
           \/ /\ furniture_catalog[j].tags.has
              /\ InList(Lower(Get(recommendations[i].furniture_type, EmptyStr)),
                        furniture_catalog[j].tags.list)
        /\ Lower(Get(recommendations[i].category, EmptyStr))
              = Lower(Get(furniture_catalog[j].category, EmptyStr))}

C7_First(i) == CHOOSE j \in C7_Accepting(i) : \A k \in C7_Accepting(i) : j <= k

\* The suggestions that have an accepting item, in input order
C7_Matched ==
    SelectSeq([i \in 1..Len(recommendations) |-> i], LAMBDA i : C7_Accepting(i) # {})

(* C7: first-match-wins: the entry of a suggestion is that of the first
   catalog item, in catalog order, that satisfies typeMatch and categoryMatch;
   a later item that satisfies both is never returned for it. *)
C7_FirstMatchWins ==
    stage = "mapped" =>
        /\ Len(mapped_assets) = Len(C7_Matched)
        /\ \A k \in 1..Len(mapped_assets) :
              /\ mapped_assets[k].asset_id = furniture_catalog[C7_First(C7_Matched[k])].id
              /\ mapped_assets[k].confidence
                    = IF \/ Lower(Get(recommendations[C7_Matched[k]].preferred_style, EmptyStr))
                              = Lower(Get(furniture_catalog[C7_First(C7_Matched[k])].style, EmptyStr))
                         \/ Lower(Get(recommendations[C7_Matched[k]].preferred_style, EmptyStr))
                              = EmptyStr
                      THEN 8 ELSE 6

\* Two items accept the suggestion, the second with the better style match,
\* and the first was returned
C7_Witness ==
    /\ stage = "mapped"
    /\ Len(recommendations) = 1
    /\ Len(furniture_catalog) = 2
    /\ C7_Accepting(1) = {1, 2}
    /\ recommendations[1].preferred_style = rustic
    /\ furniture_catalog[1].style = modern
    /\ furniture_catalog[2].style = rustic
    /\ Len(mapped_assets) = 1
    /\ mapped_assets[1].asset_id = IdOf(1)
    /\ mapped_assets[1].confidence = 6

----------------------------------------------------------------------------
\* The item of the catalog with this id
C8_ItemOf(id) == furniture_catalog[Position(id)]

(* C8: the color of every returned asset is the first entry of the matched
   item's available_colors; when that list is empty or absent the color is
   "#808080" and the call does not fail. *)
C8_FirstColorOrGray ==
    /\ error # "IndexError"
    /\ stage = "mapped" =>
          \A k \in 1..Len(mapped_assets) :
              LET item == C8_ItemOf(mapped_assets[k].asset_id)
              IN  mapped_assets[k].color
                     = IF item.available_colors.has /\ item.available_colors.list # <<>>
                       THEN item.available_colors.list[1]
                       ELSE gray

----------------------------------------------------------------------------
\* A catalog record the engine can work with: it has an id and dimensions,
\* and every field has the shape the engine expects
C9_WellFormed(item) ==
    /\ item.id # Absent
    /\ item.dimensions.kind = "dict"
    /\ item.category # NoneVal
    /\ item.style # NoneVal
    /\ item.name # NoneVal
    /\ ~ (item.available_colors.has /\ item.available_colors.list = <<>>)

C9_WellFormedCatalog == SelectSeq(furniture_catalog, C9_WellFormed)

(* C9: one bad catalog record does not block the rest: with a malformed item
   in the catalog neither call raises, and the results for the well-formed
   items are those of the call on the catalog without the malformed item. *)
C9_BadRecordDoesNotBlock ==
    /\ stage # "raised"
    /\ stage = "matched" =>
          SelectSeq(matched_furniture, C9_WellFormed)
             = match_furniture(room_analysis, C9_WellFormedCatalog)
    /\ stage = "mapped" =>
          mapped_assets
             = map_recommendations_to_assets(recommendations, C9_WellFormedCatalog).matched_assets

----------------------------------------------------------------------------
(* C10: a catalog item without id or without dimensions is never in the
   output of match_furniture and never the match of a suggestion. *)
C10_IncompleteItemsExcluded ==
    /\ stage = "matched" =>
          \A i \in 1..Len(matched_furniture) :
              /\ matched_furniture[i].id # Absent
              /\ matched_furniture[i].dimensions.kind # "absent"
    /\ stage = "mapped" =>
          \A k \in 1..Len(mapped_assets) :
              /\ mapped_assets[k].asset_id # Absent
              /\ C8_ItemOf(mapped_assets[k].asset_id).dimensions.kind # "absent"

----------------------------------------------------------------------------
(* C11: the style bonus (+30, "Matches your {style} style") is awarded if
   and only if the profile's style, lower-cased, is a substring of the item's
   lower-cased style. *)
C11_StyleBonusIffSubstring ==
    ScoredAll =>
        /\ \A i \in 1..Len(furniture_catalog) :
              LET item == furniture_catalog[i]
                  scored == ScoreItem(item, RoomTypeOf(room_analysis),
                                      StyleOf(room_analysis), SpaceSizeOf(room_analysis))
                  hit == IsSubstring(Lower(Get(room_analysis.style, modern)),
                                     Lower(Get(item.style, EmptyStr)))
              IN  /\ CountReasons(scored.reasons, {StyleReason}) = IF hit THEN 1 ELSE 0
                  /\ scored.score = (IF hit THEN 30 ELSE 0)
                        + (IF HasReason(scored.reasons, CategoryReason) THEN 50 ELSE 0)
                        + C2_BonusOf(C2_SizeTexts(scored.reasons))
        /\ \A i \in 1..Len(matched_furniture) :
              LET r == matched_furniture[i]
                  hit == IsSubstring(Lower(Get(room_analysis.style, modern)),
                                     Lower(Get(r.style, EmptyStr)))
              IN  /\ CountReasons(r.reasons, {StyleReason}) = IF hit THEN 1 ELSE 0
                  /\ hit => \E k \in 1..Len(r.reasons) :
                               r.reasons[k] = [text |-> StyleReason,
                                               arg |-> Lower(Get(room_analysis.style, modern))]
                  /\ r.recommendation_score = (IF hit THEN 30 ELSE 0)
                        + (IF HasReason(r.reasons, CategoryReason) THEN 50 ELSE 0)
                        + C2_BonusOf(C2_SizeTexts(r.reasons))

\* A "Post-Modern" item got the style bonus of the profile style "Modern"
C11_Witness ==
    /\ ScoredAll
    /\ room_analysis.style = Modern
    /\ Len(matched_furniture) = 1
    /\ matched_furniture[1].style = PostModern
    /\ HasReason(matched_furniture[1].reasons, StyleReason)

----------------------------------------------------------------------------
\* The texts of a list of reasons
C12_Texts(reasons) == [k \in 1..Len(reasons) |-> reasons[k].text]

\* The bonus a reason stands for
C12_Bonus(text) ==
    CASE text = CategoryReason -> 50
      [] text = StyleReason -> 30
      [] text \in {CompactReason, StatementReason} -> 20
      [] text = VersatileReason -> 10

\* The place of a reason in the fixed order category, style, size
C12_Rank(text) ==
    CASE text = CategoryReason -> 1
      [] text = StyleReason -> 2
      [] OTHER -> 3

RECURSIVE C12_Sum(_)
C12_Sum(texts) ==
    IF texts = <<>> THEN 0 ELSE C12_Bonus(Head(texts)) + C12_Sum(Tail(texts))

(* C12: the reasons of a returned item are in the order category, style,
   size, and its recommendation_score is the sum of the bonuses of its
   reasons; an item that matches category and style and meets the size
   threshold of a small or a large room has score 100 with the three reasons
   in order. *)
C12_ReasonsOrderedAndSummed ==
    stage = "matched" =>
        \A i \in 1..Len(matched_furniture) :
            LET r == matched_furniture[i]
                texts == C12_Texts(r.reasons)
            IN  /\ \A k, l \in 1..Len(texts) : k < l => C12_Rank(texts[k]) < C12_Rank(texts[l])
                /\ r.recommendation_score = C12_Sum(texts)
                /\ (/\ \E cat \in C3_Table(RoomTypeOf(room_analysis)) :
                          IsSubstring(cat, Lower(Get(r.category, EmptyStr)))
                    /\ IsSubstring(StyleOf(room_analysis), Lower(Get(r.style, EmptyStr)))
                    /\ SpaceSizeOf(room_analysis) \in {small, large}
                    /\ C2_SizeReasons(r, SpaceSizeOf(room_analysis)) # <<>>)
                   => /\ r.recommendation_score = 100
                      /\ texts = <<CategoryReason, StyleReason>>
                                 \o C2_SizeReasons(r, SpaceSizeOf(room_analysis))

\* The item of the example came back with score 100
C12_Witness ==
    /\ stage = "matched"
    /\ SpaceSizeOf(room_analysis) = small
    /\ Len(matched_furniture) = 1
    /\ matched_furniture[1].category = living
    /\ matched_furniture[1].style = modern
    /\ matched_furniture[1].dimensions = Dims(10, 10)
    /\ matched_furniture[1].recommendation_score = 100
    /\ Len(matched_furniture[1].reasons) = 3

----------------------------------------------------------------------------
\* typeMatch of the suggestion and the item, as the claim words it
C13_TypeMatch(rec, item) ==
    \/ IsSubstring(Lower(Get(rec.furniture_type, EmptyStr)), Lower(Get(item.name, EmptyStr)))
    \/ /\ item.tags.has
       /\ \E t \in 1..Len(item.tags.list) :
             item.tags.list[t] = Lower(Get(rec.furniture_type, EmptyStr))

\* categoryMatch of the suggestion and the item: equality, not containment
C13_CategoryMatch(rec, item) ==
    Lower(Get(rec.category, EmptyStr)) = Lower(Get(item.category, EmptyStr))

(* C13: an item is accepted for a suggestion if and only if typeMatch (the
   lower-cased furniture_type is a substring of the item's lower-cased name or
   equals one of its tags) and categoryMatch (the lower-cased categories are
   equal) both hold; the style plays no part.  So a lone suggestion against a
   lone item yields an entry exactly when both hold, and every returned asset
   is an item that satisfies both for its suggestion. *)
C13_AcceptedIffTypeAndCategory ==
    /\ \A i \in 1..Len(recommendations), j \in 1..Len(furniture_catalog) :
          Accepts(recommendations[i], furniture_catalog[j])
             <=> /\ C13_TypeMatch(recommendations[i], furniture_catalog[j])
                 /\ C13_CategoryMatch(recommendations[i], furniture_catalog[j])
    /\ stage = "mapped" =>
          /\ \A k \in 1..Len(mapped_assets) :
                \E i \in 1..Len(recommendations) :
                    /\ C13_TypeMatch(recommendations[i], C8_ItemOf(mapped_assets[k].asset_id))
                    /\ C13_CategoryMatch(recommendations[i], C8_ItemOf(mapped_assets[k].asset_id))
                    /\ mapped_assets[k].reason = Get(recommendations[i].reason, EmptyStr)
          /\ (Len(recommendations) = 1 /\ Len(furniture_catalog) = 1) =>
                (Len(mapped_assets) = 1
                   <=> /\ C13_TypeMatch(recommendations[1], furniture_catalog[1])
                       /\ C13_CategoryMatch(recommendations[1], furniture_catalog[1]))

\* An armchair tagged 'sofa' was accepted for a sofa suggestion of another
\* style, its name not containing the furniture type
C13_Witness ==
    /\ stage = "mapped"
    /\ Len(recommendations) = 1
    /\ Len(furniture_catalog) = 1
    /\ recommendations[1].furniture_type = Sofa
    /\ recommendations[1].preferred_style = rustic
    /\ furniture_catalog[1].name = Armchair
    /\ furniture_catalog[1].style = modern
    /\ Len(mapped_assets) = 1

----------------------------------------------------------------------------
(* C14: the confidence of every returned asset is 0.8 when the suggestion's
   lower-cased preferred_style equals the matched item's lower-cased style or
   the preferred_style is empty or missing, and 0.6 otherwise; it is one of
   these two values and lies in [0,1] (in tenths: 8, 6, 0..10). *)
C14_ConfidenceByStyleMatch ==
    stage = "mapped" =>
        \A k \in 1..Len(mapped_assets) :
            LET rec == recommendations[C7_Matched[k]]
                item == furniture_catalog[C7_First(C7_Matched[k])]
                preferred_style == Lower(Get(rec.preferred_style, EmptyStr))
            IN  /\ mapped_assets[k].confidence \in {6, 8}
                /\ mapped_assets[k].confidence >= 0
                /\ mapped_assets[k].confidence <= 10
                /\ mapped_assets[k].confidence = 8
                      <=> \/ preferred_style = Lower(Get(item.style, EmptyStr))
                          \/ Len(preferred_style) = 0

\* A suggestion without preferred_style matched with confidence 0.8
C14_Witness ==
    /\ stage = "mapped"
    /\ Len(recommendations) = 1
    /\ recommendations[1].preferred_style = Absent
    /\ Len(mapped_assets) = 1
    /\ C8_ItemOf(mapped_assets[1].asset_id).style = rustic
    /\ mapped_assets[1].confidence = 8

----------------------------------------------------------------------------
(* C15: no result is a value, not an error: a suggestion that no catalog item
   satisfies gets no entry and raises nothing (the call raises only when some
   suggestion has an accepting item, and returns one entry per suggestion that
   has one), and match_furniture on an empty catalog returns the empty list. *)
C15_NoMatchIsAValue ==
    /\ stage = "raised" => \E i \in 1..Len(recommendations) : C7_Accepting(i) # {}
    /\ stage = "mapped" =>
          Len(mapped_assets)
             = Cardinality({i \in 1..Len(recommendations) : C7_Accepting(i) # {}})
    /\ (stage = "mapped" /\ furniture_catalog = <<>>) => mapped_assets = <<>>
    /\ (stage = "matched" /\ furniture_catalog = <<>>) => matched_furniture = <<>>

\* A suggestion no item of a non-empty catalog satisfies: the call returned
\* the empty list
C15_Witness ==
    /\ stage = "mapped"
    /\ error = "none"
    /\ Len(recommendations) = 1
    /\ recommendations[1].furniture_type = hammock
    /\ Len(furniture_catalog) > 0
    /\ C7_Accepting(1) = {}
    /\ mapped_assets = <<>>

----------------------------------------------------------------------------
(* C20: a profile without room_type is treated as 'living': match_furniture
   returns for it the same items, scores, reasons and order as for the same
   profile with room_type 'living'. *)
C20_MissingRoomTypeIsLiving ==
    (stage = "matched" /\ room_analysis.room_type = Absent) =>
        matched_furniture
           = match_furniture([room_analysis EXCEPT !.room_type = living], furniture_catalog)

\* A profile without room_type got a lounge item back with the category
\* reason of a living room
C20_Witness ==
    /\ stage = "matched"
    /\ room_analysis.room_type = Absent
    /\ Len(matched_furniture) > 0
    /\ matched_furniture[1].category = lounge
    /\ matched_furniture[1].reasons[1] = [text |-> CategoryReason, arg |-> living]

----------------------------------------------------------------------------
(* C16: neither call modifies its inputs: across every call the catalog has
   the same items in the same order with the same fields (the scorer's output
   items are new records; no score or reasons are written into the catalog's
   records), and the profile and the suggestions are unchanged. *)
C16_InputsNotModified ==
    [][/\ furniture_catalog' = furniture_catalog
       /\ room_analysis' = room_analysis
       /\ recommendations' = recommendations]_vars

\* The scorer returned an item with score and reasons, and the catalog's
\* record of that item carries neither
C16_Witness ==
    /\ stage = "matched"
    /\ Len(matched_furniture) > 0
    /\ \E i \in 1..Len(furniture_catalog) :
          /\ furniture_catalog[i].id = matched_furniture[1].id
          /\ "recommendation_score" \in DOMAIN matched_furniture[1]
          /\ "recommendation_score" \notin DOMAIN furniture_catalog[i]

----------------------------------------------------------------------------
\* What invocation p returns when it runs alone on the catalog
AloneResult(p) ==
    IF calls[p].op = "match_furniture"
    THEN Returned(match_furniture(calls[p].room_analysis, furniture_catalog))
    ELSE LET r == map_recommendations_to_assets(calls[p].recommendations, furniture_catalog)
         IN  [error |-> r.error, value |-> r.matched_assets]

(* C17: determinism: two calls of the same entry point with the same
   arguments on the same catalog give identical results, whichever calls ran
   before them or in between. *)
C17_SameArgumentsSameResult ==
    stage = "concurrent" =>
        \A p, q \in Workers :
            (/\ calls[p].op = calls[q].op
             /\ calls[p].room_analysis = calls[q].room_analysis
             /\ calls[p].recommendations = calls[q].recommendations)
            => \A k \in 1..Len(calls[p].results), l \in 1..Len(calls[q].results) :
                  calls[p].results[k] = calls[q].results[l]

\* One invocation returned twice, a non-empty list both times, and another
\* one returned as well
C17_Witness ==
    /\ stage = "concurrent"
    /\ Len(calls[1].results) = 2
    /\ calls[1].results[1].value # <<>>
    /\ calls[1].results[2] = calls[1].results[1]
    /\ Len(calls[2].results) >= 1

----------------------------------------------------------------------------
\* Every call that has returned gave the result of the call running alone
C18_SameAsAlone ==
    stage = "concurrent" =>
        \A p \in Workers :
            \A k \in 1..Len(calls[p].results) : calls[p].results[k] = AloneResult(p)

\* A step writes only the list of the invocation that takes it, and does not
\* change the catalog the other invocations read
C18_OwnWritesOnly ==
    /\ \A f \in DOMAIN lists : lists'[f] # lists[f] => calls'[f] # calls[f]
    /\ furniture_catalog' = furniture_catalog

(* C18: concurrent invocations need no coordination: under every interleaving
   of their steps each invocation returns what it returns when it runs alone,
   and no invocation writes state that another one reads. *)
C18_NoCoordinationNeeded ==
    []C18_SameAsAlone /\ [][C18_OwnWritesOnly]_vars

\* Two invocations in their loops at the same time, both having appended to
\* their lists, one of them in its second call
C18_Witness ==
    /\ stage = "concurrent"
    /\ calls[1].pc = "loop"
    /\ calls[2].pc = "loop"
    /\ calls[1].op # calls[2].op
    /\ lists[1] # <<>>
    /\ lists[2] # <<>>
    /\ Len(calls[1].results) = 1
    /\ calls[1].results[1].value # <<>>

----------------------------------------------------------------------------
(* C19: in both analyze-room handlers the engine stage of a request is
   invoked only after the vision analysis and the catalog fetch of that
   request have both succeeded; when either fails the engine is never invoked
   for that request and the request ends with HTTP 500. *)
C19_EngineOnlyAfterBothSucceeded ==
    handler.route # "none" =>
        /\ handler.engine_calls > 0 =>
              handler.vision = "ok" /\ handler.fetch = "ok"
        /\ (handler.vision = "failed" \/ handler.fetch = "failed") =>
              /\ handler.engine_calls = 0
              /\ handler.pc = "done" => handler.status = 500

----------------------------------------------------------------------------
\* The score the scorer gives item i of the catalog
C21_ScoreOf(i) ==
    ScoreItem(furniture_catalog[i], RoomTypeOf(room_analysis),
              StyleOf(room_analysis), SpaceSizeOf(room_analysis)).score

\* The items of the catalog that reached the threshold and are not in the output
C21_Omitted ==
    {i \in 1..Len(furniture_catalog) :
        /\ furniture_catalog[i].id # Absent
        /\ C21_ScoreOf(i) >= 50
        /\ \A k \in 1..Len(matched_furniture) :
              matched_furniture[k].id # furniture_catalog[i].id}

(* C21: truncation keeps the best items: when an item with score >= 50 is
   omitted, the output holds exactly 8 items, each with a score at least that
   of the omitted item, and every returned item with the same score as the
   omitted one precedes it in the catalog. *)
C21_TruncationKeepsBest ==
    ScoredAll =>
        \A i \in C21_Omitted :
            /\ Len(matched_furniture) = 8
            /\ \A k \in 1..Len(matched_furniture) :
                  /\ matched_furniture[k].recommendation_score >= C21_ScoreOf(i)
                  /\ matched_furniture[k].recommendation_score = C21_ScoreOf(i)
                        => Position(matched_furniture[k].id) < i

\* An item was omitted that ties with a returned item and beats no returned item
C21_Witness ==
    /\ ScoredAll
    /\ \E i \in C21_Omitted :
          /\ matched_furniture[8].recommendation_score = C21_ScoreOf(i)
          /\ matched_furniture[1].recommendation_score > C21_ScoreOf(i)

----------------------------------------------------------------------------
(* C23: the reason of every returned asset is the reason of the suggestion
   that produced it, unchanged, and the empty string when the suggestion has
   no reason. *)
C23_ReasonCopied ==
    stage = "mapped" =>
        /\ Len(mapped_assets) = Len(C7_Matched)
        /\ \A k \in 1..Len(mapped_assets) :
              mapped_assets[k].reason
                 = IF recommendations[C7_Matched[k]].reason = Absent
                   THEN <<>>
                   ELSE recommendations[C7_Matched[k]].reason

\* Two matched suggestions, one with a reason and one without, in that order
C23_Witness ==
    /\ stage = "mapped"
    /\ Len(recommendations) = 2
    /\ recommendations[1].reason = ReasonText
    /\ recommendations[2].reason = Absent
    /\ Len(mapped_assets) = 2
    /\ mapped_assets[1].reason = ReasonText
    /\ mapped_assets[2].reason = <<>>

----------------------------------------------------------------------------
(* C24: every returned recommendation_score is one of 50, 60, 70, 80, 90,
   100; an item without the category bonus is returned only with both the
   +30 style bonus and a +20 size bonus, and then its score is exactly 50. *)
C24_ScoresAndNoCategory ==
    stage = "matched" =>
        \A i \in 1..Len(matched_furniture) :
            LET r == matched_furniture[i]
            IN  /\ r.recommendation_score \in {50, 60, 70, 80, 90, 100}
                /\ ~ HasReason(r.reasons, CategoryReason) =>
                      /\ HasReason(r.reasons, StyleReason)
                      /\ \/ HasReason(r.reasons, CompactReason)
                         \/ HasReason(r.reasons, StatementReason)
                      /\ r.recommendation_score = 50

\* A desk was recommended for a living room on its style and size alone
C24_Witness ==
    /\ stage = "matched"
    /\ RoomTypeOf(room_analysis) = living
    /\ Len(matched_furniture) = 1
    /\ matched_furniture[1].category = desk
    /\ ~ HasReason(matched_furniture[1].reasons, CategoryReason)
    /\ matched_furniture[1].recommendation_score = 50

----------------------------------------------------------------------------
\* The outcome of the call on the suggestions from..to
C25_Part(from, to) ==
    map_recommendations_to_assets(SubSeq(recommendations, from, to), furniture_catalog)

(* C25: each suggestion is reconciled independently and output order follows
   input order: for every split of the suggestion list into S1 ++ S2 the
   result of the call is the result for S1 followed by the result for S2 (the
   call raising what the first raising part raises); a catalog item is not
   consumed by a match. *)
C25_ConcatenationOfParts ==
    stage \in {"mapped", "raised"} =>
        \A n \in 0..Len(recommendations) :
            LET a == C25_Part(1, n)
                b == C25_Part(n + 1, Len(recommendations))
            IN  IF a.error # "none" THEN stage = "raised" /\ error = a.error
                ELSE IF b.error # "none" THEN stage = "raised" /\ error = b.error
                ELSE /\ stage = "mapped"
                     /\ mapped_assets = a.matched_assets \o b.matched_assets

\* Two suggestions were mapped to the same asset
C25_Witness ==
    /\ stage = "mapped"
    /\ Len(recommendations) = 2
    /\ Len(mapped_assets) = 2
    /\ mapped_assets[1].asset_id = mapped_assets[2].asset_id
    /\ mapped_assets[1].confidence # mapped_assets[2].confidence

----------------------------------------------------------------------------
(* C30: a profile without style is scored as if its style were 'modern', and
   a profile without space_size as if its space_size were 'medium' (every
   returned item carries the +10 size reason); the output equals that of the
   profile with the two values written out. *)
C30_StyleAndSizeDefaults ==
    stage = "matched" =>
        /\ room_analysis.style = Absent =>
              /\ matched_furniture
                    = match_furniture([room_analysis EXCEPT !.style = modern],
                                      furniture_catalog)
              /\ \A i \in 1..Len(matched_furniture) :
                    HasReason(matched_furniture[i].reasons, StyleReason)
                       <=> IsSubstring(modern, Lower(Get(matched_furniture[i].style, EmptyStr)))
        /\ room_analysis.space_size = Absent =>
              /\ matched_furniture
                    = match_furniture([room_analysis EXCEPT !.space_size = medium],
                                      furniture_catalog)
              /\ \A i \in 1..Len(matched_furniture) :
                    HasReason(matched_furniture[i].reasons, VersatileReason)
        /\ (room_analysis.style = Absent /\ room_analysis.space_size = Absent) =>
              matched_furniture
                 = match_furniture([room_analysis EXCEPT !.style = modern,
                                                         !.space_size = medium],
                                   furniture_catalog)

\* A profile with neither field got a 'Post-Modern' item back with the style
\* and the medium-size reasons
C30_Witness ==
    /\ stage = "matched"
    /\ room_analysis.style = Absent
    /\ room_analysis.space_size = Absent
    /\ Len(matched_furniture) = 1
    /\ matched_furniture[1].style = PostModern
    /\ HasReason(matched_furniture[1].reasons, StyleReason)
    /\ HasReason(matched_furniture[1].reasons, VersatileReason)

----------------------------------------------------------------------------
(* C27: in the /api/analyze-room handler of ai_routes the uploaded image the
   handler saved is gone from the upload folder when the handler returns its
   response, on every path. *)
C27_UploadRemovedOnEveryPath ==
    (handler.route = "ai" /\ handler.pc = "done") => handler.file # "saved"

----------------------------------------------------------------------------
\* The filename ends, whatever the case of its letters, with a dot and one of
\* the four extensions
C28_GoodExtension(filename) ==
    \E e \in {<<"p","n","g">>, <<"j","p","g">>, <<"j","p","e","g">>, <<"w","e","b","p">>} :
        /\ Len(filename) > Len(e)
        /\ filename[Len(filename) - Len(e)] = "."
        /\ Lower(SubSeq(filename, Len(filename) - Len(e) + 1, Len(filename))) = e

\* The message of the first check, in the order of the handler, that the
\* upload of the request fails; "none" when it passes them all
C28_FirstFailure ==
    IF ~ handler.upload.has_image THEN "No image file provided"
    ELSE IF Len(handler.upload.filename) = 0
    THEN IF handler.route = "ai" THEN "Empty filename" ELSE "No file selected"
    ELSE IF ~ C28_GoodExtension(handler.upload.filename)
    THEN "Invalid file type. Allowed: png, jpg, jpeg, webp"
    ELSE IF handler.route = "room_analysis" /\ handler.upload.megabytes > 10
    THEN "File too large. Maximum size: 10MB"
    ELSE "none"

(* C28: a request that fails upload validation (no 'image' part, empty
   filename, extension outside png/jpg/jpeg/webp, or in room_analysis_routes a
   body over 10 MB) is answered with HTTP 400 and never reaches the vision
   analyzer, the catalog store or the engine; the checks are applied in that
   order and the first failing check decides the error message.  A request
   that passes them all is never answered with 400. *)
C28_InvalidUploadRejectedFirst ==
    handler.route # "none" =>
        /\ C28_FirstFailure # "none" =>
              /\ handler.vision = "pending"
              /\ handler.fetch = "pending"
              /\ handler.engine_calls = 0
              /\ handler.file = "none"
              /\ room_analysis = EmptyAnalysis
              /\ furniture_catalog = <<>>
              /\ recommendations = <<>>
              /\ handler.pc = "done" =>
                    /\ handler.status = 400
                    /\ handler.message = C28_FirstFailure
        /\ C28_FirstFailure = "none" => handler.status # 400

\* An upload that fails two checks, answered with the message of the first
C28_Witness ==
    /\ handler.route = "room_analysis"
    /\ handler.pc = "done"
    /\ handler.upload.has_image
    /\ handler.upload.filename = RoomGif
    /\ handler.upload.megabytes > 10
    /\ handler.status = 400
    /\ handler.message = "Invalid file type. Allowed: png, jpg, jpeg, webp"

----------------------------------------------------------------------------
\* The items the store holds
C22_Stored == Contents(store, store.data)

(* C22: catalog item ids are unique: from a store whose items have pairwise
   distinct ids, after any sequence of create_furniture, update_furniture and
   delete_furniture calls no two items of the store share an id. *)
C22_StoredIdsUnique ==
    stage = "store" =>
        \A i, j \in 1..Len(C22_Stored) : i # j => C22_Stored[i].id # C22_Stored[j].id

----------------------------------------------------------------------------
(* C26: the list get_furniture_list handed to a request is a snapshot: a
   create_furniture, update_furniture or delete_furniture of another request,
   interleaved with the reading of the list, changes neither its items nor
   their fields nor its length; so the request reads the items of the
   snapshot. *)
C26_HandedListIsSnapshot ==
    (stage = "store" /\ reader.list # 0) =>
        /\ Contents(store, reader.list) = reader.snapshot
        /\ reader.seen = SubSeq(reader.snapshot, 1, Len(reader.seen))

----------------------------------------------------------------------------
(* C29: delete_furniture(id) returns True if and only if at least one stored
   item had that id before the call; after the call no stored item has that
   id and all other items remain, unchanged and in their previous order;
   when it returns False the store is unchanged. *)
C29_DeleteRemovesExactlyThatId ==
    (stage = "store" /\ store.last.op = "delete_furniture") =>
        LET before == store.last.before
            after == Contents(store, store.data)
            had == \E k \in 1..Len(before) : before[k].id = store.last.arg
        IN  /\ store.last.result = had
            /\ \A k \in 1..Len(after) : after[k].id # store.last.arg
            /\ after = SelectSeq(before, LAMBDA x : x.id # store.last.arg)
            /\ ~ store.last.result => after = before

\* Two stored items had the id: the call returned True, both are gone and the
\* other item is still there
C29_Witness ==
    /\ stage = "store"
    /\ store.last.op = "delete_furniture"
    /\ store.last.result = TRUE
    /\ Cardinality({k \in 1..Len(store.last.before) :
                       store.last.before[k].id = store.last.arg}) = 2
    /\ Len(Contents(store, store.data)) = Len(store.last.before) - 2
    /\ Len(Contents(store, store.data)) > 0

====
